---- MODULE Spec2Model ----
(***************************************************************************)
(* Model of the fetch-and-cache coordinator of the Nextcloud exporter      *)
(* (collector.go): NextcloudCollector.Collect, fetchStatusCached,          *)
(* fetchDataCached, fetchStatus and fetchData, run by concurrent scrape    *)
(* goroutines that share one collector and its sync.RWMutex.               *)
(*                                                                         *)
(* Time is a discrete clock `now`.  A payload is identified by the ordinal *)
(* of the upstream response it was decoded from (each fetch allocates a    *)
(* new object, &data), so payload identity is pointer identity.            *)
(***************************************************************************)
EXTENDS Integers, Sequences, FiniteSets

\* ------------------------------------------------------------------ bounds
MaxTime == 2           \* the clock runs 0..MaxTime
MaxFetches == 2        \* upstream responses that carry a decodable body
FetchIntervalTicks == 2 \* config.FetchInterval, in ticks of the clock
MaxCollects == 2       \* scrapes that arrive in one run, each in its own goroutine
MaxEnvLen == 2         \* length of the value of a duration environment variable

\* --------------------------------------------------------------- constants
Nil == 0               \* nil *StatusResponse / *OCSResponse
ZeroTime == 0 - 1      \* the zero time.Time (field never assigned)
StatusOK == 200
StatusTooManyRequests == 429
StatusOther == 500     \* representative of every other status code
NoErr == "nil"
NoLog == ""
StaleLog == "Using cached data due to fetch error"
ErrorLog == "Error fetching"

Procs == 1..MaxCollects
Sources == {"status", "data"}
MaxDuration == MaxTime + FetchIntervalTicks + 1   \* time.Since saturates here

FetchErrors == {"executing request", "rate limited (429)",
                "unexpected status code", "reading response body",
                "parsing JSON"}

\* What one round trip can bring back: whether client.Do returned a
\* response, its status code, whether the body could be read and decoded.
Responses == [transport : BOOLEAN,
              code : {StatusOK, StatusTooManyRequests, StatusOther},
              bodyRead : BOOLEAN,
              decodes : BOOLEAN]

\* The round trips the upstream is taken to answer with: a good response,
\* HTTP 429, another non-200 code, and a transport failure or timeout.
GoodResponse ==
    [transport |-> TRUE, code |-> StatusOK, bodyRead |-> TRUE, decodes |-> TRUE]
Upstream ==
    {GoodResponse,
     [GoodResponse EXCEPT !.code = StatusTooManyRequests],
     [GoodResponse EXCEPT !.code = StatusOther],
     [GoodResponse EXCEPT !.transport = FALSE]}

VARIABLES
    now,              \* time.Now()
    config,           \* *Config (FetchInterval)
    cachedStatus,     \* c.cachedStatus
    cachedData,       \* c.cachedData
    lastStatusFetch,  \* c.lastStatusFetch
    lastFetchTime,    \* c.lastFetchTime
    cacheMu,          \* c.cacheMu: readers, w (writer mutex holder), held
    pc,               \* position of each scrape goroutine
    src,              \* which source the goroutine is working on
    fetchRes,         \* (status, err) / (data, err) returned by the fetch
    ret,              \* what fetchStatusCached / fetchDataCached last returned
    ch,               \* metrics sent on the channel by this Collect
    logged,           \* the line the current call last wrote to the log
    nextPayload,      \* ordinal of the next upstream response body
    calls,            \* history: upstream calls made by the current fetch*Cached call
    trackAttempts,    \* whether the history of upstream calls is kept
    lastAttempt,      \* history: time of the last upstream call per source
    fetchedOK,        \* history: payloads of successful fetches per source
    stampFor,         \* history: the payload each timestamp was written for
    superseded,       \* history: payloads a later write has replaced, per source
    receivedAt,       \* history: when the goroutine's last fetch returned
    roundTrip,        \* what client.Do and the body bring back, when given
    flags,            \* the command line, as the flag package parsed it
    env,              \* the environment variables
    phase             \* where main is: start, fatal, loaded, serving

vars == <<now, config, cachedStatus, cachedData, lastStatusFetch,
          lastFetchTime, cacheMu, pc, src, fetchRes, ret, ch, logged,
          nextPayload, calls, trackAttempts, lastAttempt, fetchedOK,
          stampFor, superseded, receivedAt, roundTrip, flags, env, phase>>

\* -------------------------------------------------------- slot accessors
Cached(s) == IF s = "status" THEN cachedStatus ELSE cachedData

\* variant: both sources are aged by the timestamp of the info source
LastShared(s) == lastFetchTime

Last(s) == IF s = "status" THEN lastStatusFetch ELSE lastFetchTime

\* time.Since(t) at clock value n
Since(t, n) == IF t = ZeroTime THEN MaxDuration ELSE n - t

\* ----------------------------------------------------- configuration
DefaultFetchInterval == 10     \* seconds
DefaultTimeout == 5            \* seconds
DefaultListenAddr == ":9205"

\* The characters a duration value is made of here, and the values drawn.
EnvChars == {"0", "2", "s"}
EnvStrings == UNION {[1..n -> EnvChars] : n \in 0..MaxEnvLen}
FlagDurations == {0, 7}        \* 0: the flag was not given

DigitChars == <<"0", "1", "2", "3", "4", "5", "6", "7", "8", "9">>
IsDigit(c) == \E i \in DOMAIN DigitChars : DigitChars[i] = c
DigitValue(c) == (CHOOSE i \in DOMAIN DigitChars : DigitChars[i] = c) - 1

\* number of leading characters of str that are (d = TRUE) or are not digits
RECURSIVE Run(_, _)
Run(str, d) ==
    IF str = <<>> \/ IsDigit(Head(str)) # d THEN 0
    ELSE 1 + Run(Tail(str), d)

RECURSIVE Decimal(_, _)
Decimal(str, acc) ==
    IF str = <<>> THEN acc
    ELSE Decimal(Tail(str), 10 * acc + DigitValue(Head(str)))

\* strconv.Atoi on an unsigned decimal
Atoi(str) ==
    IF str # <<>> /\ Run(str, TRUE) = Len(str)
    THEN [ok |-> TRUE, n |-> Decimal(str, 0)]
    ELSE [ok |-> FALSE, n |-> 0]

\* seconds in a unit of time.ParseDuration; 0 for an unknown unit
UnitSeconds(u) ==
    IF u = <<"s">> THEN 1
    ELSE IF u = <<"m">> THEN 60
    ELSE IF u = <<"h">> THEN 3600
    ELSE 0

\* time.ParseDuration: one or more groups of a decimal number and a unit,
\* or the single character 0
RECURSIVE ParseGroups(_, _)
ParseGroups(str, acc) ==
    IF str = <<>> THEN [ok |-> TRUE, d |-> acc]
    ELSE LET nd == Run(str, TRUE)
             rest == SubSeq(str, nd + 1, Len(str))
             nu == Run(rest, FALSE)
             unit == SubSeq(rest, 1, nu) IN
         IF nd = 0 \/ nu = 0 \/ UnitSeconds(unit) = 0
         THEN [ok |-> FALSE, d |-> 0]
         ELSE ParseGroups(SubSeq(rest, nu + 1, Len(rest)),
                          acc + Decimal(SubSeq(str, 1, nd), 0) * UnitSeconds(unit))
ParseDuration(str) ==
    IF str = <<"0">> THEN [ok |-> TRUE, d |-> 0]
    ELSE IF str = <<>> THEN [ok |-> FALSE, d |-> 0]
    ELSE ParseGroups(str, 0)

\* getEnv
getEnv(value, defaultValue) == IF value # "" THEN value ELSE defaultValue

\* variant: a value without a unit is not read as seconds
getEnvDurationStrict(value, defaultValue) ==
    IF value # <<>> /\ ParseDuration(value).ok THEN ParseDuration(value).d
    ELSE defaultValue

\* getEnvDuration
getEnvDuration(value, defaultValue) ==
    IF value # <<>>
    THEN IF ParseDuration(value).ok THEN ParseDuration(value).d
         ELSE IF Atoi(value).ok THEN Atoi(value).n
         ELSE defaultValue
    ELSE defaultValue

\* LoadConfig: the flags, then the environment and the defaults
LoadedConfig(f, e) ==
    [BaseURL |-> IF f.url = "" THEN getEnv(e.NEXTCLOUD_URL, "") ELSE f.url,
     Token |-> IF f.token = "" THEN getEnv(e.NC_TOKEN, "") ELSE f.token,
     ListenAddr |-> IF f.listen = ""
                    THEN getEnv(e.LISTEN_ADDR, DefaultListenAddr)
                    ELSE f.listen,
     FetchInterval |-> IF f.fetchInterval = 0
                       THEN getEnvDuration(e.FETCH_INTERVAL, DefaultFetchInterval)
                       ELSE f.fetchInterval,
     Timeout |-> IF f.timeout = 0
                 THEN getEnvDuration(e.TIMEOUT, DefaultTimeout)
                 ELSE f.timeout]

\* variant: only the URL is required
ValidateURLOnly(c) == IF c.BaseURL = "" THEN "fatal" ELSE "loaded"

\* LoadConfig: the required parameters, log.Fatal when one is missing
Validate(c) == IF c.BaseURL = "" \/ c.Token = "" THEN "fatal" ELSE "loaded"

NoConfig == [BaseURL |-> "", Token |-> "", ListenAddr |-> "",
             FetchInterval |-> 0, Timeout |-> 0]
NoEnv == [NEXTCLOUD_URL |-> "", NC_TOKEN |-> "", LISTEN_ADDR |-> "",
          FETCH_INTERVAL |-> <<>>, TIMEOUT |-> <<>>]
\* the command line of the running exporter
ServingFlags == [url |-> "flag-url", token |-> "flag-token", listen |-> "",
                 fetchInterval |-> FetchIntervalTicks, timeout |-> 0]

\* ------------------------------------------------------------ pure parts
\* variant: the age comparison reversed
CacheHitFlipped(cached, last, n, interval) ==
    cached # Nil /\ Since(last, n) > interval

\* if c.cachedStatus != nil && time.Since(c.lastStatusFetch) < c.config.FetchInterval
CacheHit(cached, last, n, interval) ==
    cached # Nil /\ Since(last, n) < interval

\* variant: HTTP 429 is not told apart from the other status codes
ClassifyNo429(resp, id) ==
    IF ~resp.transport THEN [val |-> Nil, err |-> "executing request"]
    ELSE IF resp.code # StatusOK
         THEN [val |-> Nil, err |-> "unexpected status code"]
    ELSE IF ~resp.bodyRead
         THEN [val |-> Nil, err |-> "reading response body"]
    ELSE IF ~resp.decodes THEN [val |-> Nil, err |-> "parsing JSON"]
    ELSE [val |-> id, err |-> NoErr]

\* fetchStatus / fetchData: classify one round trip; id names the body.
Classify(resp, id) ==
    IF ~resp.transport THEN [val |-> Nil, err |-> "executing request"]
    ELSE IF resp.code = StatusTooManyRequests
         THEN [val |-> Nil, err |-> "rate limited (429)"]
    ELSE IF resp.code # StatusOK
         THEN [val |-> Nil, err |-> "unexpected status code"]
    ELSE IF ~resp.bodyRead
         THEN [val |-> Nil, err |-> "reading response body"]
    ELSE IF ~resp.decodes THEN [val |-> Nil, err |-> "parsing JSON"]
    ELSE [val |-> id, err |-> NoErr]

\* variant: the result is stored whether or not the fetch failed
AfterFetchStores(err) == "lock"

\* variant: a failed fetch is tried again
AfterFetchRetry(err) == IF err # NoErr THEN "fetch" ELSE "lock"

\* after the fetch: the error branch re-reads the cache, success writes it
AfterFetch(err) == IF err # NoErr THEN "rlock2" ELSE "lock"

\* variant: the error branch returns the fetch's (nil) result, not the cache
FallbackForgets(cached, err) ==
    IF cached # Nil THEN [val |-> Nil, err |-> NoErr]
    ELSE [val |-> Nil, err |-> err]

\* variant: the error branch replaces the fetch's error by one of its own
FallbackWraps(cached, err) ==
    IF cached # Nil THEN [val |-> cached, err |-> NoErr]
    ELSE [val |-> Nil, err |-> "no data available"]

\* variant: the error branch always passes the error on
FallbackPropagates(cached, err) == [val |-> Nil, err |-> err]

\* the error branch: serve the cached value if there is one, else the error
FallbackResult(cached, err) ==
    IF cached # Nil THEN [val |-> cached, err |-> NoErr]
    ELSE [val |-> Nil, err |-> err]

\* what the error branch of fetch*Cached and Collect write to the log
FallbackLog(cached) ==
    IF cached # Nil THEN StaleLog ELSE NoLog
CollectLog(err, line) == IF err # NoErr THEN ErrorLog ELSE line

\* variant: a populated slot is kept (filled once, never replaced)
StoredPayloadKeep(old, new) == IF old # Nil THEN old ELSE new

\* the values stored by the write: the slot is overwritten
StoredPayload(old, new) == new
StoredTime(n) == n

\* variant: the writer does not wait for the readers to leave
CanLockAcquireAnyway(mu) == TRUE

\* variant: the read lock is not released
RUnlockForgotten(mu, p) == mu

\* sync.RWMutex
RUnlock(mu, p) == [mu EXCEPT !.readers = @ \ {p}]
CanRLock(mu) == mu.w = 0
CanLock(mu) == mu.w = 0
CanLockAcquire(mu) == mu.readers = {}

\* variant: the status metrics are sent whether or not there was an error
StatusEmitAlways(val, err) == << [name |-> "nextcloud_status", val |-> val] >>

\* Collect, after fetchStatusCached returned
StatusEmit(val, err) ==
    IF err # NoErr THEN <<>> ELSE << [name |-> "nextcloud_status", val |-> val] >>

\* variant: nothing is sent when the info source fails
DataEmitNoZero(val, err) ==
    IF err # NoErr THEN <<>>
    ELSE << [name |-> "nextcloud_scrape_success", val |-> 1],
            [name |-> "nextcloud_info", val |-> val] >>

\* Collect, after fetchDataCached returned
DataEmit(val, err) ==
    IF err # NoErr THEN << [name |-> "nextcloud_scrape_success", val |-> 0] >>
    ELSE << [name |-> "nextcloud_scrape_success", val |-> 1],
            [name |-> "nextcloud_info", val |-> val] >>

\* variant: a failed status source ends the scrape
AfterStatusAbort(err) == IF err # NoErr THEN "done" ELSE "rlock1"

\* Collect goes on to fetchDataCached whatever the status source returned
AfterStatus(err) == "rlock1"

NoResult == [val |-> Nil, err |-> NoErr]
NoRoundTrip == [transport |-> FALSE, code |-> 0, bodyRead |-> FALSE,
                decodes |-> FALSE]

\* ------------------------------------------------------------------ Init
InitCollector ==
    /\ now = 0
    /\ config = LoadedConfig(ServingFlags, NoEnv)
    /\ cachedStatus = Nil
    /\ cachedData = Nil
    /\ lastStatusFetch = ZeroTime
    /\ lastFetchTime = ZeroTime
    /\ cacheMu = [readers |-> {}, w |-> 0, held |-> FALSE]
    /\ pc = [p \in Procs |-> "idle"]
    /\ src = [p \in Procs |-> "status"]
    /\ fetchRes = [p \in Procs |-> NoResult]
    /\ ret = [p \in Procs |-> NoResult]
    /\ ch = [p \in Procs |-> <<>>]
    /\ logged = [p \in Procs |-> NoLog]
    /\ nextPayload = 1
    /\ calls = [p \in Procs |-> 0]
    /\ lastAttempt = [s \in Sources |-> ZeroTime]
    /\ fetchedOK = [s \in Sources |-> {}]
    /\ stampFor = [s \in Sources |-> Nil]
    /\ superseded = [s \in Sources |-> {}]
    /\ receivedAt = [p \in Procs |-> ZeroTime]

\* main has loaded the configuration, registered the collector and listens
Serving == flags = ServingFlags /\ env = NoEnv /\ phase = "serving"

Init ==
    /\ InitCollector
    /\ trackAttempts = FALSE
    /\ roundTrip = [p \in Procs |-> NoRoundTrip]
    /\ Serving
InitAttempts ==
    /\ InitCollector
    /\ trackAttempts = TRUE
    /\ roundTrip = [p \in Procs |-> NoRoundTrip]
    /\ Serving

\* --------------------------------------------------------------- actions
slotVars == <<cachedStatus, cachedData, lastStatusFetch, lastFetchTime>>
startVars == <<flags, env, phase>>
histVars == <<calls, trackAttempts, lastAttempt, fetchedOK, stampFor,
              superseded, receivedAt>>

\* fetchStatusCached / fetchDataCached return to Collect, which emits the
\* source's metrics (or logs the error) and goes on to the next source.
\* The callee's locals end with the call.
Return(p, s, val, err, line) ==
    /\ ret' = [ret EXCEPT ![p] = [val |-> val, err |-> err]]
    /\ logged' = [logged EXCEPT ![p] = CollectLog(err, line)]
    /\ fetchRes' = [fetchRes EXCEPT ![p] = NoResult]
    /\ IF s = "status"
       THEN /\ ch' = [ch EXCEPT ![p] = @ \o StatusEmit(val, err)]
            /\ src' = [src EXCEPT ![p] = "data"]
            /\ pc' = [pc EXCEPT ![p] = AfterStatus(err)]
       ELSE /\ ch' = [ch EXCEPT ![p] = @ \o DataEmit(val, err)]
            /\ src' = src
            /\ pc' = [pc EXCEPT ![p] = "done"]

\* the clock advances
Tick ==
    /\ now < MaxTime
    /\ now' = now + 1
    /\ UNCHANGED <<config, slotVars, cacheMu, pc, src, fetchRes, ret,
                   ch, logged, nextPayload, histVars, roundTrip, startVars>>

\* a scrape arrives: its goroutine enters Collect (goroutines are numbered
\* in the order in which their scrapes arrive)
CollectStart(p) ==
    /\ phase = "serving"
    /\ pc[p] = "idle"
    /\ \A q \in Procs : q < p => pc[q] # "idle"
    /\ pc' = [pc EXCEPT ![p] = "rlock1"]
    /\ src' = [src EXCEPT ![p] = "status"]
    /\ ret' = [ret EXCEPT ![p] = NoResult]
    /\ ch' = [ch EXCEPT ![p] = <<>>]
    /\ logged' = [logged EXCEPT ![p] = NoLog]
    /\ calls' = [calls EXCEPT ![p] = 0]
    /\ UNCHANGED <<now, config, slotVars, cacheMu, fetchRes, nextPayload,
                   trackAttempts, lastAttempt, fetchedOK, stampFor,
                   superseded, roundTrip, receivedAt,
                   startVars>>

\* c.cacheMu.RLock() at the top of fetch*Cached; the previous call's
\* return values are dead by now (Collect has used them)
RLock1(p) ==
    /\ pc[p] = "rlock1"
    /\ CanRLock(cacheMu)
    /\ cacheMu' = [cacheMu EXCEPT !.readers = @ \cup {p}]
    /\ pc' = [pc EXCEPT ![p] = "check"]
    /\ ret' = [ret EXCEPT ![p] = NoResult]
    /\ logged' = [logged EXCEPT ![p] = NoLog]
    /\ calls' = [calls EXCEPT ![p] = 0]
    /\ UNCHANGED <<now, config, slotVars, src, fetchRes, ch, nextPayload,
                   trackAttempts, lastAttempt, fetchedOK, stampFor,
                   superseded, roundTrip, receivedAt,
                   startVars>>

\* the hit test under the read lock, RUnlock, and the return on a hit
Check(p) ==
    LET s == src[p] IN
    /\ pc[p] = "check"
    /\ cacheMu' = RUnlock(cacheMu, p)
    /\ IF CacheHit(Cached(s), Last(s), now, config.FetchInterval)
       THEN Return(p, s, Cached(s), NoErr, NoLog)
       ELSE /\ pc' = [pc EXCEPT ![p] = "fetch"]
            /\ UNCHANGED <<src, fetchRes, ret, ch, logged>>
    /\ UNCHANGED <<now, config, slotVars, nextPayload, histVars, roundTrip, startVars>>

\* variant: a scrape waits while another fetch of its source is in flight
FetchStartSingleFlight(p) ==
    LET s == src[p] IN
    /\ pc[p] = "fetch"
    /\ \A q \in Procs : ~(q # p /\ pc[q] = "inflight" /\ src[q] = s)
    /\ pc' = [pc EXCEPT ![p] = "inflight"]
    /\ calls' = [calls EXCEPT ![p] = @ + 1]
    /\ lastAttempt' = IF trackAttempts THEN [lastAttempt EXCEPT ![s] = now]
                       ELSE lastAttempt
    /\ UNCHANGED <<now, config, slotVars, cacheMu, src, fetchRes, ret,
                   ch, logged, nextPayload, trackAttempts, fetchedOK,
                   stampFor, superseded, roundTrip, receivedAt,
                   startVars>>

\* c.client.Do(req): the request leaves
FetchStart(p) ==
    LET s == src[p] IN
    /\ pc[p] = "fetch"
    /\ pc' = [pc EXCEPT ![p] = "inflight"]
    /\ calls' = [calls EXCEPT ![p] = @ + 1]
    /\ lastAttempt' = IF trackAttempts THEN [lastAttempt EXCEPT ![s] = now]
                       ELSE lastAttempt
    /\ UNCHANGED <<now, config, slotVars, cacheMu, src, fetchRes, ret,
                   ch, logged, nextPayload, trackAttempts, fetchedOK,
                   stampFor, superseded, roundTrip, receivedAt,
                   startVars>>

\* fetchStatus / fetchData return
FetchReturn(p) ==
    LET s == src[p] IN
    /\ pc[p] = "inflight"
    /\ \E resp \in Upstream :
         LET r == Classify(resp, nextPayload) IN
         /\ r.val # Nil => nextPayload <= MaxFetches
         /\ fetchRes' = [fetchRes EXCEPT ![p] = r]
         /\ nextPayload' = IF r.val # Nil THEN nextPayload + 1 ELSE nextPayload
         /\ fetchedOK' = IF resp = GoodResponse
                         THEN [fetchedOK EXCEPT ![s] = @ \cup {nextPayload}]
                         ELSE fetchedOK
         /\ pc' = [pc EXCEPT ![p] = AfterFetch(r.err)]
    /\ receivedAt' = IF trackAttempts THEN [receivedAt EXCEPT ![p] = now]
                      ELSE receivedAt
    /\ UNCHANGED <<now, config, slotVars, cacheMu, src, ret, ch, logged,
                   calls, trackAttempts, lastAttempt, stampFor, superseded,
                   roundTrip, startVars>>

\* c.cacheMu.RLock() in the error branch
RLock2(p) ==
    /\ pc[p] = "rlock2"
    /\ CanRLock(cacheMu)
    /\ cacheMu' = [cacheMu EXCEPT !.readers = @ \cup {p}]
    /\ pc' = [pc EXCEPT ![p] = "reread"]
    /\ UNCHANGED <<now, config, slotVars, src, fetchRes, ret, ch, logged,
                   nextPayload, histVars, roundTrip, startVars>>

\* the re-read under the read lock, RUnlock, and the return
Reread(p) ==
    LET s == src[p]
        r == FallbackResult(Cached(s), fetchRes[p].err) IN
    /\ pc[p] = "reread"
    /\ cacheMu' = RUnlock(cacheMu, p)
    /\ Return(p, s, r.val, r.err, FallbackLog(Cached(s)))
    /\ UNCHANGED <<now, config, slotVars, nextPayload, histVars, roundTrip, startVars>>

\* c.cacheMu.Lock(): take the writer mutex, which turns new readers away
Lock(p) ==
    /\ pc[p] = "lock"
    /\ CanLock(cacheMu)
    /\ cacheMu' = [cacheMu EXCEPT !.w = p]
    /\ pc' = [pc EXCEPT ![p] = "lockwait"]
    /\ UNCHANGED <<now, config, slotVars, src, fetchRes, ret, ch, logged,
                   nextPayload, histVars, roundTrip, startVars>>

\* c.cacheMu.Lock() returns once the readers have left
LockAcquire(p) ==
    /\ pc[p] = "lockwait"
    /\ CanLockAcquire(cacheMu)
    /\ cacheMu' = [cacheMu EXCEPT !.held = TRUE]
    /\ pc' = [pc EXCEPT ![p] = "write1"]
    /\ UNCHANGED <<now, config, slotVars, src, fetchRes, ret, ch, logged,
                   nextPayload, histVars, roundTrip, startVars>>

\* c.cachedStatus = status / c.cachedData = data
Write1(p) ==
    /\ pc[p] = "write1"
    /\ IF src[p] = "status"
       THEN /\ cachedStatus' = StoredPayload(cachedStatus, fetchRes[p].val)
            /\ cachedData' = cachedData
       ELSE /\ cachedData' = StoredPayload(cachedData, fetchRes[p].val)
            /\ cachedStatus' = cachedStatus
    /\ superseded' = [superseded EXCEPT ![src[p]] =
                          IF Cached(src[p]) # Nil /\ Cached(src[p]) # fetchRes[p].val
                          THEN @ \cup {Cached(src[p])} ELSE @]
    /\ pc' = [pc EXCEPT ![p] = "write2"]
    /\ UNCHANGED <<now, config, lastStatusFetch, lastFetchTime, cacheMu, src,
                   fetchRes, ret, ch, logged, nextPayload, calls,
                   trackAttempts, lastAttempt, fetchedOK, stampFor, roundTrip, receivedAt,
                   startVars>>

\* c.lastStatusFetch = time.Now() / c.lastFetchTime = time.Now()
Write2(p) ==
    /\ pc[p] = "write2"
    /\ IF src[p] = "status"
       THEN lastStatusFetch' = StoredTime(now) /\ lastFetchTime' = lastFetchTime
       ELSE lastFetchTime' = StoredTime(now) /\ lastStatusFetch' = lastStatusFetch
    /\ stampFor' = [stampFor EXCEPT ![src[p]] = fetchRes[p].val]
    /\ pc' = [pc EXCEPT ![p] = "unlock"]
    /\ UNCHANGED <<now, config, cachedStatus, cachedData, cacheMu, src,
                   fetchRes, ret, ch, logged, nextPayload, calls,
                   trackAttempts, lastAttempt, fetchedOK, superseded,
                   roundTrip, receivedAt,
                   startVars>>

\* c.cacheMu.Unlock() and the return of the fresh value
Unlock(p) ==
    /\ pc[p] = "unlock"
    /\ cacheMu' = [cacheMu EXCEPT !.w = 0, !.held = FALSE]
    /\ Return(p, src[p], fetchRes[p].val, NoErr, NoLog)
    /\ UNCHANGED <<now, config, slotVars, nextPayload, histVars, roundTrip, startVars>>

Next ==
    \/ Tick
    \/ \E p \in Procs : CollectStart(p)
    \/ \E p \in Procs : RLock1(p)
    \/ \E p \in Procs : Check(p)
    \/ \E p \in Procs : FetchStart(p)
    \/ \E p \in Procs : FetchReturn(p)
    \/ \E p \in Procs : RLock2(p)
    \/ \E p \in Procs : Reread(p)
    \/ \E p \in Procs : Lock(p)
    \/ \E p \in Procs : LockAcquire(p)
    \/ \E p \in Procs : Write1(p)
    \/ \E p \in Procs : Write2(p)
    \/ \E p \in Procs : Unlock(p)

Spec == Init /\ [][Next]_vars

\* the same program with the history of upstream calls kept: when the
\* last call of each source left, and when each goroutine's fetch returned
SpecAttempts == InitAttempts /\ [][Next]_vars

\* one step of the scrape goroutine p, from its first RLock to its return
ScrapeStep(p) ==
    \/ RLock1(p) \/ Check(p) \/ FetchStart(p) \/ FetchReturn(p)
    \/ RLock2(p) \/ Reread(p) \/ Lock(p) \/ LockAcquire(p)
    \/ Write1(p) \/ Write2(p) \/ Unlock(p)

\* The Go scheduler runs every runnable goroutine, sync.RWMutex wakes its
\* waiters, and every fetch returns (the client has a timeout).
Fairness == \A p \in Procs : WF_vars(ScrapeStep(p))

SpecLive == Init /\ [][Next]_vars /\ Fairness

\* Runs in which the calls for one source never overlap (a goroutine is in
\* fetchStatusCached or fetchDataCached only while no other goroutine is in
\* the same function) and in which the upstream answers every fetch well.
InCall(p, s) == pc[p] \notin {"idle", "done"} /\ src[p] = s
NoOverlap ==
    \A p, q \in Procs : \A s \in Sources :
        InCall(p, s) /\ InCall(q, s) => p = q
EveryFetchSucceeds == \A p \in Procs : fetchRes[p].err = NoErr

NextSerial == Next /\ NoOverlap' /\ EveryFetchSucceeds'

SpecSerial == Init /\ [][NextSerial]_vars

\* ----------------------------------------------------------- startup
\* The process starts with some command line and environment.
InitStartup ==
    /\ now = 0
    /\ config = NoConfig
    /\ cachedStatus = Nil
    /\ cachedData = Nil
    /\ lastStatusFetch = ZeroTime
    /\ lastFetchTime = ZeroTime
    /\ cacheMu = [readers |-> {}, w |-> 0, held |-> FALSE]
    /\ pc = [p \in Procs |-> "idle"]
    /\ src = [p \in Procs |-> "status"]
    /\ fetchRes = [p \in Procs |-> NoResult]
    /\ ret = [p \in Procs |-> NoResult]
    /\ ch = [p \in Procs |-> <<>>]
    /\ logged = [p \in Procs |-> NoLog]
    /\ nextPayload = 1
    /\ calls = [p \in Procs |-> 0]
    /\ trackAttempts = FALSE
    /\ lastAttempt = [s \in Sources |-> ZeroTime]
    /\ fetchedOK = [s \in Sources |-> {}]
    /\ stampFor = [s \in Sources |-> Nil]
    /\ superseded = [s \in Sources |-> {}]
    /\ receivedAt = [p \in Procs |-> ZeroTime]
    /\ roundTrip = [p \in Procs |-> NoRoundTrip]
    /\ flags \in [url : {"", "flag-url"}, token : {"", "flag-token"},
                  listen : {"", "flag-listen"},
                  fetchInterval : FlagDurations, timeout : FlagDurations]
    /\ env \in [NEXTCLOUD_URL : {"", "env-url"}, NC_TOKEN : {"", "env-token"},
                LISTEN_ADDR : {"", "env-listen"},
                FETCH_INTERVAL : EnvStrings, TIMEOUT : EnvStrings]
    /\ phase = "start"

\* LoadConfig, up to its return or log.Fatal
LoadConfig ==
    /\ phase = "start"
    /\ config' = LoadedConfig(flags, env)
    /\ phase' = Validate(LoadedConfig(flags, env))
    /\ UNCHANGED <<now, slotVars, cacheMu, pc, src, fetchRes, ret, ch,
                   logged, nextPayload, histVars, roundTrip, flags, env>>

\* main: NewNextcloudCollector, prometheus.MustRegister, ListenAndServe
Serve ==
    /\ phase = "loaded"
    /\ phase' = "serving"
    /\ UNCHANGED <<now, config, slotVars, cacheMu, pc, src, fetchRes, ret,
                   ch, logged, nextPayload, histVars, roundTrip, flags, env>>

\* startup, and the arrival of scrapes once the exporter serves
NextStartup ==
    \/ LoadConfig
    \/ Serve
    \/ \E p \in Procs : CollectStart(p)

SpecStartup == InitStartup /\ [][NextStartup]_vars

\* ------------------------------------------- one fetch, on any round trip
\* A goroutine is inside fetchStatus or fetchData; the round trip it is
\* about to get is any of Responses.
InitFetch ==
    /\ now = 0
    /\ config = LoadedConfig(ServingFlags, NoEnv)
    /\ cachedStatus = Nil
    /\ cachedData = Nil
    /\ lastStatusFetch = ZeroTime
    /\ lastFetchTime = ZeroTime
    /\ cacheMu = [readers |-> {}, w |-> 0, held |-> FALSE]
    /\ pc = [p \in Procs |-> IF p = 1 THEN "inflight" ELSE "idle"]
    /\ src \in [Procs -> Sources]
    /\ \A p \in Procs : p # 1 => src[p] = "status"
    /\ fetchRes = [p \in Procs |-> NoResult]
    /\ ret = [p \in Procs |-> NoResult]
    /\ ch = [p \in Procs |-> <<>>]
    /\ logged = [p \in Procs |-> NoLog]
    /\ nextPayload \in 1..MaxFetches
    /\ calls = [p \in Procs |-> IF p = 1 THEN 1 ELSE 0]
    /\ trackAttempts = FALSE
    /\ lastAttempt = [s \in Sources |-> ZeroTime]
    /\ fetchedOK = [s \in Sources |-> {}]
    /\ stampFor = [s \in Sources |-> Nil]
    /\ superseded = [s \in Sources |-> {}]
    /\ receivedAt = [p \in Procs |-> ZeroTime]
    /\ roundTrip \in [Procs -> Responses \cup {NoRoundTrip}]
    /\ \A p \in Procs : (roundTrip[p] = NoRoundTrip) = (p # 1)
    /\ Serving

\* fetchStatus / fetchData, from c.client.Do(req) to the return
FetchOnce(p) ==
    LET r == Classify(roundTrip[p], nextPayload) IN
    /\ pc[p] = "inflight"
    /\ roundTrip[p] # NoRoundTrip
    /\ fetchRes' = [fetchRes EXCEPT ![p] = r]
    /\ nextPayload' = IF r.val # Nil THEN nextPayload + 1 ELSE nextPayload
    /\ pc' = [pc EXCEPT ![p] = AfterFetch(r.err)]
    /\ UNCHANGED <<now, config, slotVars, cacheMu, src, ret, ch, logged,
                   histVars, roundTrip, startVars>>

NextFetch == \E p \in Procs : FetchOnce(p)

SpecFetch == InitFetch /\ [][NextFetch]_vars

\* ------------------------------------------------------------ properties
MetricOf(s) == IF s = "status" THEN "nextcloud_status" ELSE "nextcloud_info"
SuccessSamples(p) ==
    {i \in DOMAIN ch[p] : ch[p][i].name = "nextcloud_scrape_success"}
\* the age test of the specification, stated on the slot itself
Fresh(s) ==
    Cached(s) # Nil /\ Last(s) # ZeroTime /\ now - Last(s) < config.FetchInterval

\* C1 (cache hit): a scrape whose read finds a snapshot younger than
\* FetchInterval returns that snapshot with no error, makes no upstream
\* call, and leaves both slots (payload and timestamp) as they were.
ThmC1_CacheHit ==
    [][\A p \in Procs :
         (pc[p] = "check" /\ pc'[p] # "check" /\ Fresh(src[p])) =>
             /\ ret'[p] = [val |-> Cached(src[p]), err |-> NoErr]
             /\ pc'[p] \in {"rlock1", "done"}
             /\ calls'[p] = 0
             /\ slotVars' = slotVars]_vars

\* a hit has been served: a payload was returned without any upstream call
WitC1_HitServed ==
    \E p \in Procs : pc[p] \in {"rlock1", "done"} /\ ret[p].val # Nil
                     /\ calls[p] = 0

\* C2 (rate limiting): any two upstream calls for the same source are at
\* least FetchInterval apart.
CexC2_CallsSpacedByInterval ==
    [][\A p \in Procs :
         (pc[p] = "fetch" /\ pc'[p] = "inflight"
          /\ lastAttempt[src[p]] # ZeroTime) =>
             now - lastAttempt[src[p]] >= config.FetchInterval]_vars

\* C3 (stale fallback): a failed fetch leaves the slots untouched, and the
\* scrape that finds a snapshot in the slot when it handles the failure
\* returns that snapshot with no error, logs that cached data is used, and
\* leaves payload and timestamp as they were.
ThmC3_StaleFallback ==
    [][\A p \in Procs :
         /\ (pc[p] = "inflight" /\ pc'[p] = "rlock2") => slotVars' = slotVars
         /\ (pc[p] = "rlock2" /\ pc'[p] = "reread") => slotVars' = slotVars
         /\ (pc[p] = "reread" /\ pc'[p] # "reread" /\ Cached(src[p]) # Nil) =>
                /\ ret'[p] = [val |-> Cached(src[p]), err |-> NoErr]
                /\ logged'[p] = StaleLog
                /\ slotVars' = slotVars]_vars

\* the status source has just been served stale: its fetch failed and the
\* returned payload is the cached one, older than FetchInterval
WitC3_ServedStale ==
    \E p \in Procs : /\ pc[p] = "rlock1" /\ src[p] = "data"
                     /\ logged[p] = StaleLog /\ calls[p] = 1
                     /\ ret[p].val = cachedStatus /\ cachedStatus # Nil
                     /\ lastStatusFetch # ZeroTime
                     /\ now - lastStatusFetch >= config.FetchInterval

\* C4 (no-cache failure): a scrape that handles a failed fetch while the
\* slot is empty returns the fetch's error and no payload, Collect sends no
\* payload-derived metric of that source, and the slot stays empty.
ThmC4_NoCacheFailure ==
    [][\A p \in Procs :
         (pc[p] = "reread" /\ pc'[p] # "reread" /\ Cached(src[p]) = Nil) =>
             /\ ret'[p] = [val |-> Nil, err |-> fetchRes[p].err]
             /\ fetchRes[p].err \in FetchErrors
             /\ logged'[p] = ErrorLog
             /\ \A i \in DOMAIN ch'[p] : ch'[p][i].name # MetricOf(src[p])
             /\ Last(src[p]) = ZeroTime
             /\ slotVars' = slotVars]_vars

\* the status source failed with an empty slot: an error came back and the
\* channel holds nothing
WitC4_FailedEmpty ==
    \E p \in Procs : /\ pc[p] = "rlock1" /\ src[p] = "data"
                     /\ ret[p].err # NoErr /\ ch[p] = <<>>
                     /\ cachedStatus = Nil

\* C5 (refresh): on the success path the write stores the fetched payload
\* and the current time, both in the slot together when the lock is
\* released, and the scrape returns the fetched payload with no error.
ThmC5_Refresh ==
    [][\A p \in Procs :
         /\ (pc[p] = "write1" /\ pc'[p] = "write2") =>
                (IF src[p] = "status" THEN cachedStatus' ELSE cachedData')
                    = fetchRes[p].val
         /\ (pc[p] = "write2" /\ pc'[p] = "unlock") =>
                /\ (IF src[p] = "status" THEN lastStatusFetch'
                                         ELSE lastFetchTime') = now
                /\ Cached(src[p]) = fetchRes[p].val
         /\ (pc[p] = "unlock" /\ pc'[p] # "unlock") =>
                /\ ret'[p] = [val |-> fetchRes[p].val, err |-> NoErr]
                /\ fetchRes[p].val \in fetchedOK[src[p]]
                /\ Cached(src[p]) = fetchRes[p].val
                /\ stampFor[src[p]] = fetchRes[p].val
                /\ Last(src[p]) # ZeroTime
                /\ slotVars' = slotVars]_vars

\* a populated status slot has been replaced by a second successful fetch
\* and the scrape that fetched it has returned it
WitC5_Replaced ==
    \E p \in Procs : /\ pc[p] = "rlock1" /\ src[p] = "data"
                     /\ calls[p] = 1 /\ logged[p] = NoLog
                     /\ ret[p].val = cachedStatus
                     /\ Cardinality(fetchedOK["status"]) = 2
                     /\ \A v \in fetchedOK["status"] : v <= cachedStatus

\* C6 (one attempt per refresh decision): a call of fetch*Cached makes no
\* upstream call on a hit and exactly one otherwise (age = FetchInterval is
\* a miss); a failed call goes to the fallback and is never repeated.
ThmC6_OneAttempt ==
    [][\A p \in Procs :
         /\ calls'[p] <= 1
         /\ (pc[p] = "check" /\ pc'[p] # "check") =>
                IF Fresh(src[p])
                THEN pc'[p] \in {"rlock1", "done"} /\ calls'[p] = 0
                ELSE pc'[p] = "fetch" /\ calls'[p] = 0
         /\ (pc[p] = "fetch" /\ pc'[p] # "fetch") =>
                pc'[p] = "inflight" /\ calls'[p] = 1
         /\ (pc[p] = "inflight" /\ pc'[p] # "inflight") =>
                pc'[p] \in {"rlock2", "lock"} /\ calls'[p] = 1
         /\ (pc[p] \in {"reread", "unlock"} /\ pc'[p] # pc[p]) =>
                calls[p] = 1 /\ calls'[p] = 1]_vars

\* a scrape has returned from a call whose one fetch failed
WitC6_FailedOnce ==
    \E p \in Procs : pc[p] \in {"rlock1", "done"} /\ calls[p] = 1
                     /\ logged[p] # NoLog

\* C7 (no torn read): whenever a scrape holds the read lock, each slot is
\* either empty or holds a payload together with the timestamp that was
\* written for that payload.
ThmC7_NoTornRead ==
    cacheMu.readers # {} =>
        \A s \in Sources :
            \/ Cached(s) = Nil /\ Last(s) = ZeroTime
            \/ Cached(s) # Nil /\ Last(s) # ZeroTime /\ stampFor[s] = Cached(s)

\* a scrape holds the read lock while another scrape waits to replace a
\* populated slot
WitC7_ReaderAndWriter ==
    \E p, q \in Procs : /\ p \in cacheMu.readers /\ pc[q] = "lockwait"
                        /\ Cached(src[q]) # Nil

\* C8 (slot provenance): each slot is empty, with the zero timestamp, or
\* holds a payload that a successful fetch of that same source returned.
ThmC8_SlotProvenance ==
    \A s \in Sources :
        \/ Cached(s) = Nil /\ Last(s) = ZeroTime
        \/ Cached(s) \in fetchedOK[s]

\* both slots are populated and some fetch has failed meanwhile
WitC8_BothPopulated ==
    /\ cachedStatus # Nil /\ cachedData # Nil
    /\ \E p \in Procs : logged[p] # NoLog

\* C9 (availability after first success): a populated slot never becomes
\* empty again, and every return of fetch*Cached for a source whose slot
\* is populated carries a payload and no error.
ThmC9_AvailableOncePopulated ==
    [][\A s \in Sources :
         Cached(s) # Nil =>
             /\ (IF s = "status" THEN cachedStatus' ELSE cachedData') # Nil
             /\ \A p \in Procs :
                  (src[p] = s /\ pc[p] \in {"check", "reread", "unlock"}
                   /\ pc'[p] \in {"rlock1", "done"}) =>
                      ret'[p].err = NoErr /\ ret'[p].val # Nil]_vars

\* the info source's fetch failed with a populated slot and the scrape
\* finished with the cached payload
WitC9_FailureAbsorbed ==
    \E p \in Procs : /\ pc[p] = "done" /\ logged[p] = StaleLog
                     /\ ret[p].err = NoErr /\ ret[p].val = cachedData

\* C10 (scrape-health indicator): a finished Collect has sent exactly one
\* nextcloud_scrape_success sample, 1 if fetchDataCached returned a payload
\* and 0 if it returned an error; before that none has been sent.
ThmC10_ScrapeSuccess ==
    \A p \in Procs :
        /\ pc[p] # "done" => SuccessSamples(p) = {}
        /\ pc[p] = "done" =>
              /\ Cardinality(SuccessSamples(p)) = 1
              /\ (ret[p].err = NoErr) = (ret[p].val # Nil)
              /\ \A i \in SuccessSamples(p) :
                    ch[p][i].val = IF ret[p].err = NoErr THEN 1 ELSE 0

\* a Collect finished healthy although its status source failed
WitC10_HealthyWithoutStatus ==
    \E p \in Procs : /\ pc[p] = "done"
                     /\ \A i \in DOMAIN ch[p] : ch[p][i].name # "nextcloud_status"
                     /\ \E i \in SuccessSamples(p) : ch[p][i].val = 1

\* the age test of the specification, stated on each source's own fields
FreshStatus ==
    /\ cachedStatus # Nil /\ lastStatusFetch # ZeroTime
    /\ now - lastStatusFetch < config.FetchInterval
FreshData ==
    /\ cachedData # Nil /\ lastFetchTime # ZeroTime
    /\ now - lastFetchTime < config.FetchInterval
HasMetric(sent, name) == \E i \in DOMAIN sent : sent[i].name = name

\* C11 (source independence of cache state): every step a scrape takes for
\* one source (hit, successful refresh, failed refresh) leaves the other
\* source's payload and timestamp unchanged, and the hit/miss decision for a
\* source is the age test on that source's own payload and timestamp.
ThmC11_SourceIndependence ==
    [][\A p \in Procs :
         (pc'[p] # pc[p]) =>
             /\ src[p] = "status" =>
                    cachedData' = cachedData /\ lastFetchTime' = lastFetchTime
             /\ src[p] = "data" =>
                    cachedStatus' = cachedStatus
                    /\ lastStatusFetch' = lastStatusFetch
             /\ (pc[p] = "check" /\ src[p] = "status") =>
                    (pc'[p] = "fetch") = ~FreshStatus
             /\ (pc[p] = "check" /\ src[p] = "data") =>
                    (pc'[p] = "fetch") = ~FreshData]_vars

\* a scrape whose status source failed on an empty slot was served the info
\* payload from the cache, without a fetch
WitC11_HitAfterOtherFailed ==
    \E p \in Procs : /\ pc[p] = "done" /\ calls[p] = 0
                     /\ cachedData # Nil /\ ret[p].val = cachedData
                     /\ cachedStatus = Nil
                     /\ ~HasMetric(ch[p], "nextcloud_status")

\* C12 (per-scrape isolation of failures): whatever the status source
\* returned, Collect goes on to the info source; the status metrics are sent
\* exactly when the status source yielded a payload, the info metrics exactly
\* when the info source did, and the info outcome leaves the status metrics
\* of the scrape as sent.
ThmC12_FailureIsolation ==
    [][\A p \in Procs :
         /\ (src[p] = "status" /\ pc[p] \in {"check", "reread", "unlock"}
             /\ pc'[p] \notin {pc[p], "fetch"}) =>
                /\ pc'[p] = "rlock1" /\ src'[p] = "data"
                /\ HasMetric(ch'[p], "nextcloud_status") = (ret'[p].val # Nil)
                /\ ~HasMetric(ch'[p], "nextcloud_info")
         /\ (src[p] = "data" /\ pc[p] \in {"check", "reread", "unlock"}
             /\ pc'[p] \notin {pc[p], "fetch"}) =>
                /\ pc'[p] = "done"
                /\ HasMetric(ch'[p], "nextcloud_info") = (ret'[p].val # Nil)
                /\ HasMetric(ch'[p], "nextcloud_status")
                       = HasMetric(ch[p], "nextcloud_status")]_vars

\* one finished scrape sent info metrics although its status source failed
\* with no cache, and another sent status metrics although its info source
\* failed with no cache
WitC12_EachWithoutTheOther ==
    /\ \E p \in Procs : /\ pc[p] = "done"
                        /\ ~HasMetric(ch[p], "nextcloud_status")
                        /\ HasMetric(ch[p], "nextcloud_info")
    /\ \E q \in Procs : /\ pc[q] = "done"
                        /\ HasMetric(ch[q], "nextcloud_status")
                        /\ ~HasMetric(ch[q], "nextcloud_info")
                        /\ ret[q].err # NoErr

\* the scrape has yet to return from fetch*Cached for source s
Unserved(p, s) ==
    /\ pc[p] \notin {"idle", "done"}
    /\ src[p] = s \/ (src[p] = "status" /\ s = "data")

\* C13 (no cross-source delay): while a source's slot holds a snapshot
\* younger than FetchInterval, no scrape that has yet to be served that
\* source is waiting on an upstream fetch for the other source.
CexC13_NoCrossSourceDelay ==
    \A p \in Procs : \A s \in Sources :
        (pc[p] = "inflight" /\ src[p] # s /\ Unserved(p, s)) =>
            ~(IF s = "status" THEN FreshStatus ELSE FreshData)

ThmC16_Classification ==
    \A p \in Procs :
        (roundTrip[p] # NoRoundTrip /\ pc[p] # "inflight") =>
            LET rt == roundTrip[p]
                r == fetchRes[p] IN
            /\ (r.val # Nil) = (rt.transport /\ rt.code = StatusOK
                                /\ rt.bodyRead /\ rt.decodes)
            /\ (r.val # Nil) = (r.err = NoErr)
            /\ ~rt.transport => r.err = "executing request"
            /\ (rt.transport /\ rt.code = StatusTooManyRequests) =>
                   r.err = "rate limited (429)"
            /\ (rt.transport /\ rt.code \notin {StatusOK, StatusTooManyRequests}) =>
                   r.err = "unexpected status code"
            /\ (rt.transport /\ rt.code = StatusOK /\ ~rt.bodyRead) =>
                   r.err = "reading response body"
            /\ (rt.transport /\ rt.code = StatusOK /\ rt.bodyRead
                /\ ~rt.decodes) => r.err = "parsing JSON"
            /\ pc[p] = (IF r.err = NoErr THEN "lock" ELSE "rlock2")

\* an HTTP 429 whose body would have decoded was classified as rate limited
WitC16_RateLimited ==
    \E p \in Procs : /\ pc[p] = "rlock2"
                     /\ roundTrip[p].transport
                     /\ roundTrip[p].code = StatusTooManyRequests
                     /\ roundTrip[p].decodes
                     /\ fetchRes[p] = [val |-> Nil, err |-> "rate limited (429)"]

\* the value a setting resolves to, as the configuration table states it
ResolvedText(flag, value, default) ==
    IF flag # "" THEN flag ELSE IF value # "" THEN value ELSE default
ResolvedDuration(flag, value, default) ==
    IF flag # 0 THEN flag
    ELSE IF value # <<>> /\ ParseDuration(value).ok THEN ParseDuration(value).d
    ELSE IF value # <<>> /\ Atoi(value).ok THEN Atoi(value).n
    ELSE default

\* C17 (startup validation): with the base URL or the token empty after
\* flags and environment are resolved, the process ends in log.Fatal, which
\* nothing follows: the collector is never registered and no scrape starts;
\* a scrape only ever runs with both values present.
ThmC17_StartupValidation ==
    LET missing == \/ ResolvedText(flags.url, env.NEXTCLOUD_URL, "") = ""
                   \/ ResolvedText(flags.token, env.NC_TOKEN, "") = "" IN
    /\ missing => /\ phase \in {"start", "fatal"}
                  /\ \A p \in Procs : pc[p] = "idle"
    /\ (phase = "fatal") = (missing /\ phase # "start")
    /\ phase = "fatal" => ~ENABLED NextStartup
    /\ (\E p \in Procs : pc[p] # "idle") =>
           phase = "serving" /\ config.BaseURL # "" /\ config.Token # ""

\* the URL came from the environment, the token from nowhere: fatal
WitC17_FatalWithoutToken ==
    /\ phase = "fatal" /\ config.BaseURL = "env-url" /\ config.Token = ""
    /\ flags.url = ""

ThmC19_NoLockAcrossFetch ==
    \A p \in Procs :
        /\ pc[p] \in {"fetch", "inflight"} =>
               p \notin cacheMu.readers /\ cacheMu.w # p
        /\ p \in cacheMu.readers => pc[p] \in {"check", "reread"}
        /\ cacheMu.w = p => pc[p] \in {"lockwait", "write1", "write2", "unlock"}
        /\ (cacheMu.held /\ cacheMu.w = p) =>
               pc[p] \in {"write1", "write2", "unlock"}
        /\ (pc[p] \in {"rlock1", "rlock2"} /\ ~CanRLock(cacheMu)) =>
               pc[cacheMu.w] \notin {"fetch", "inflight"}

\* one scrape reads a populated slot while another is inside a fetch
WitC19_ReadDuringFetch ==
    \E p, q \in Procs : /\ pc[p] = "inflight" /\ pc[q] = "check"
                        /\ q \in cacheMu.readers /\ Cached(src[q]) # Nil

\* C20 (no in-flight deduplication): a scrape that has seen a miss can
\* always issue its own upstream call, whatever the other scrapes are
\* doing, and a successful scrape's write stores its own payload over
\* whatever the slot holds, the replaced payload being gone.
ThmC20_NoDeduplication ==
    [][\A p \in Procs :
         /\ pc[p] = "fetch" => ENABLED FetchStart(p)
         /\ (pc[p] = "write1" /\ pc'[p] = "write2") =>
                /\ (IF src[p] = "status" THEN cachedStatus' ELSE cachedData')
                       = fetchRes[p].val
                /\ Cached(src[p]) # Nil =>
                       Cached(src[p]) \in superseded'[src[p]]]_vars

\* every scrape is inside its own fetch of the status source, none having
\* written
WitC20_AllInFlight ==
    /\ \A p \in Procs : pc[p] = "inflight" /\ src[p] = "status"
    /\ cachedStatus = Nil

\* C21 (timestamp truthfulness): the timestamp of every snapshot written
\* to a slot lies within the fetch that produced the payload: it is no
\* later than the instant at which that fetch returned.
CexC21_StampWithinFetch ==
    \A p \in Procs :
        pc[p] = "unlock" /\ stampFor[src[p]] = fetchRes[p].val
            => Last(src[p]) <= receivedAt[p]

\* C22 (scrape termination): under any interleaving of concurrent Collect
\* invocations in which every goroutine keeps being scheduled and every
\* fetch returns, each invocation that has started eventually completes.
ThmC22_ScrapeTermination ==
    \A p \in Procs : (pc[p] # "idle") ~> (pc[p] = "done")
\* every scrape has completed although two of them wrote the same slot
WitC22_AllDoneAfterContention ==
    /\ \A p \in Procs : pc[p] = "done"
    /\ \E s \in Sources : superseded[s] # {}

\* C23 (freshness never regresses): a write never replaces the cached
\* payload by one decoded from an older upstream response; the response
\* ordinal held in a slot never decreases.
CexC23_VersionNonDecreasing ==
    [][\A s \in Sources : Cached(s) # Nil => Cached(s)' >= Cached(s)]_vars

\* C24 (spacing of successful fetches without overlap): when the scrapes
\* of a source do not overlap and every fetch succeeds, a fetch of a source
\* whose slot was written before starts at least FetchInterval after that
\* write (the slot's timestamp), however soon the scrape arrived.
ThmC24_SpacedAfterWrite ==
    [][\A p \in Procs :
         pc[p] = "fetch" /\ pc'[p] = "inflight" /\ Cached(src[p]) # Nil
             => /\ Last(src[p]) # ZeroTime
                /\ now - Last(src[p]) >= config.FetchInterval]_vars
\* a second fetch of a source is under way, its slot written before
WitC24_SecondFetch ==
    \E p \in Procs :
        /\ pc[p] = "inflight"
        /\ Cached(src[p]) # Nil
        /\ now - Last(src[p]) >= config.FetchInterval

\* C25 (failed attempts do not start an interval): only the write of a
\* successful fetch changes a slot's timestamp, a slot that is empty or
\* expired stays so until such a write, and a scrape that finds it so goes
\* to the upstream and makes one call, however recent the last failure.
ThmC25_FailureStartsNoInterval ==
    [][\A s \in Sources :
         /\ Last(s)' # Last(s)
                => \E p \in Procs : /\ pc[p] = "write2" /\ pc'[p] = "unlock"
                                     /\ src[p] = s
                                     /\ fetchRes[p].err = NoErr
                                     /\ fetchRes[p].val \in fetchedOK[s]
         /\ ~Fresh(s) /\ Fresh(s)' => Last(s)' # Last(s)
         /\ \A p \in Procs :
                src[p] = s /\ ~Fresh(s)
                    => /\ pc[p] = "check" /\ pc'[p] # "check" => pc'[p] = "fetch"
                       /\ pc[p] = "fetch" /\ pc'[p] # "fetch"
                              => pc'[p] = "inflight" /\ calls'[p] = 1]_vars
\* the upstream has failed throughout: every scrape has called it once for
\* the info source and got the error, with no time elapsed in between
WitC25_EveryScrapeCalled ==
    /\ now = 0
    /\ \A s \in Sources : fetchedOK[s] = {}
    /\ \A p \in Procs : pc[p] = "done" /\ calls[p] = 1 /\ ret[p].err # NoErr

\* C26 (fallback reads the current slot): a scrape whose fetch failed
\* serves what the slot holds at the re-read after the failure, also when a
\* concurrent scrape has populated or replaced the slot during the fetch,
\* and it returns an error only when the slot is empty at the re-read.
ThmC26_FallbackReadsCurrentSlot ==
    [][\A p \in Procs :
         pc[p] = "reread" /\ pc'[p] # "reread"
             => /\ ret'[p].val = Cached(src[p])
                /\ ret'[p].val \notin superseded[src[p]]
                /\ (ret'[p].err # NoErr) = (Cached(src[p]) = Nil)
                /\ Cached(src[p]) # Nil => logged'[p] = StaleLog]_vars
\* a scrape that found the status slot empty at its first read (no time has
\* passed, so a populated slot would have been a hit) is served, after its
\* own fetch failed, the snapshot another scrape wrote meanwhile
WitC26_ServedWhatAnotherWrote ==
    \E p \in Procs :
        /\ now = 0
        /\ src[p] = "data" /\ pc[p] = "rlock1"
        /\ logged[p] = StaleLog
        /\ ret[p].val # Nil /\ ret[p].val = cachedStatus

\* C27 (bounded fetch for every configuration): every Config that
\* LoadConfig returns has a strictly positive Timeout and a strictly
\* positive FetchInterval, whatever the flags and the environment.
CexC27_PositiveDurations ==
    phase \in {"loaded", "serving"}
        => config.Timeout > 0 /\ config.FetchInterval > 0

====
